---------------------------- MODULE Spec2Model ----------------------------
(***************************************************************************)
(* A model of src/src/simplex.rs: the dense-tableau primal simplex solver  *)
(* simplex_method and its helpers create_augmented_mat, get_next_pivot and *)
(* apply_row_operations.                                                   *)
(*                                                                         *)
(* The tableau entries are Rust f32 values.  They are modelled bit for bit *)
(* as IEEE-754 binary32 numbers <<s, e, m>> (sign, biased exponent,        *)
(* fraction field) with round-to-nearest-even arithmetic, signed zeros,    *)
(* infinities and NaN, because the selection rules of get_next_pivot       *)
(* compare such values (0.0 / -1.0 is -0.0, 0.0 / 0.0 is NaN) and the      *)
(* tests compare the result with a tolerance of f32::EPSILON.              *)
(***************************************************************************)
EXTENDS Integers, Sequences, FiniteSets, TLC

-----------------------------------------------------------------------------
(***************************************************************************)
(* f32: IEEE-754 binary32.  A value is <<s, e, m>>, s \in 0..1,            *)
(* e \in 0..255, m \in 0..2^23-1.  e = 0 is zero or subnormal, e = 255 is  *)
(* infinity (m = 0) or NaN (m # 0; one canonical NaN is kept, its payload  *)
(* is not observable through the comparisons the solver makes).            *)
(***************************************************************************)
P21 == 2^21
P23 == 2^23
P24 == 2^24
P12 == 2^12
P7  == 2^7

FZero    == <<0, 0, 0>>
FNegZero == <<1, 0, 0>>
FOne     == <<0, 127, 0>>
FNaN     == <<0, 255, 2^22>>
FInf(s)  == <<s, 255, 0>>

IsNaN(x)  == x[2] = 255 /\ x[3] # 0
IsInf(x)  == x[2] = 255 /\ x[3] = 0
IsZero(x) == x[2] = 0 /\ x[3] = 0

\* The integer significand and the exponent of its unit: |x| = Sig(x) * 2^Exp(x).
Sig(x) == IF x[2] = 0 THEN x[3] ELSE P23 + x[3]
Exp(x) == IF x[2] = 0 THEN -149 ELSE x[2] - 150

\* Number of significant bits of n, 0 <= n < 2^31.
RECURSIVE BitLen(_)
BitLen(n) == IF n = 0 THEN 0 ELSE 1 + BitLen(n \div 2)

\* n shifted right by d bits, any bit shifted out kept ("jammed") in bit 0.
ShiftRightJam(n, d) ==
    IF d <= 0 THEN n
    ELSE IF d >= 31 THEN (IF n = 0 THEN 0 ELSE 1)
    ELSE LET q == n \div (2^d)
         IN  IF n % (2^d) # 0 /\ q % 2 = 0 THEN q + 1 ELSE q

Jam(q, inexact) == IF inexact /\ q % 2 = 0 THEN q + 1 ELSE q

\* The binary32 nearest to (-1)^s * M * 2^E (ties to even), 0 < M < 2^30.
\* A jammed bit 0 of M stands for a non-zero tail below it; callers keep it
\* at least two places below the rounding position.
RoundPack(s, M, E) ==
    LET nb == BitLen(M)
        e  == E + nb + 126
        eb == IF e >= 1 THEN e ELSE 1
        sh == IF e >= 1 THEN nb - 24 ELSE (-149) - E
    IN  IF e >= 255 THEN FInf(s)
        ELSE IF sh > 30 THEN <<s, 0, 0>>
        ELSE LET q == IF sh <= 0 THEN M * (2^(-sh))
                      ELSE LET q0   == M \div (2^sh)
                               r    == M % (2^sh)
                               half == 2^(sh - 1)
                           IN  IF r > half \/ (r = half /\ q0 % 2 = 1)
                               THEN q0 + 1 ELSE q0
                 enc == (eb - 1) * P23 + q
             IN  IF enc \div P23 >= 255 THEN FInf(s)
                 ELSE <<s, enc \div P23, enc % P23>>

\* The significand scaled to 24 bits, and the exponent to go with it.
NormSig(x) == Sig(x) * (2^(24 - BitLen(Sig(x))))
NormExp(x) == Exp(x) - (24 - BitLen(Sig(x)))

\* An integer |n| < 2^30 as an f32 (`as f32`, or a literal such as 720.0).
FromInt(n) == IF n = 0 THEN FZero
              ELSE IF n < 0 THEN RoundPack(1, -n, 0) ELSE RoundPack(0, n, 0)

\* Unary minus: flips the sign bit.
FNeg(x) == IF IsNaN(x) THEN FNaN ELSE <<1 - x[1], x[2], x[3]>>

\* a + b
FAddFinite(a, b) ==
    LET hi == IF Exp(a) >= Exp(b) THEN a ELSE b
        lo == IF Exp(a) >= Exp(b) THEN b ELSE a
        A  == Sig(hi) * 8
        B  == ShiftRightJam(Sig(lo) * 8, Exp(hi) - Exp(lo))
        E  == Exp(hi) - 3
    IN  IF hi[1] = lo[1] THEN RoundPack(hi[1], A + B, E)
        ELSE IF A > B THEN RoundPack(hi[1], A - B, E)
        ELSE IF A < B THEN RoundPack(lo[1], B - A, E)
        ELSE FZero

FAdd(a, b) ==
    IF IsNaN(a) \/ IsNaN(b) THEN FNaN
    ELSE IF IsInf(a) THEN (IF IsInf(b) /\ a[1] # b[1] THEN FNaN ELSE a)
    ELSE IF IsInf(b) THEN b
    ELSE IF IsZero(a) /\ IsZero(b) THEN (IF a[1] = 1 /\ b[1] = 1 THEN FNegZero ELSE FZero)
    ELSE IF IsZero(a) THEN b
    ELSE IF IsZero(b) THEN a
    ELSE FAddFinite(a, b)

\* a * b
FMulFinite(a, b) ==
    LET x   == NormSig(a)
        y   == NormSig(b)
        xh  == x \div P12
        xl  == x % P12
        yh  == y \div P12
        yl  == y % P12
        mid == xh * yl + xl * yh
        low == (mid % P12) * P12 + xl * yl
        hi  == xh * yh + (mid \div P12) + (low \div P24)
        lo  == low % P24
        M   == Jam(hi * 8 + (lo \div P21), lo % P21 # 0)
    IN  RoundPack((a[1] + b[1]) % 2, M, NormExp(a) + NormExp(b) + 21)

FMul(a, b) ==
    LET s == (a[1] + b[1]) % 2
    IN  IF IsNaN(a) \/ IsNaN(b) THEN FNaN
        ELSE IF IsInf(a) \/ IsInf(b)
             THEN (IF IsZero(a) \/ IsZero(b) THEN FNaN ELSE FInf(s))
        ELSE IF IsZero(a) \/ IsZero(b) THEN <<s, 0, 0>>
        ELSE FMulFinite(a, b)

\* a / b
FDivFinite(a, b) ==
    LET x  == NormSig(a)
        y  == NormSig(b)
        q1 == (x * P7) \div y
        r1 == (x * P7) % y
        q2 == (r1 * P7) \div y
        r2 == (r1 * P7) % y
        q3 == (r2 * P7) \div y
        r3 == (r2 * P7) % y
        q4 == (r3 * P7) \div y
        r4 == (r3 * P7) % y
        Q  == ((q1 * P7 + q2) * P7 + q3) * P7 + q4
    IN  RoundPack((a[1] + b[1]) % 2, Jam(Q, r4 # 0), NormExp(a) - NormExp(b) - 28)

FDiv(a, b) ==
    LET s == (a[1] + b[1]) % 2
    IN  IF IsNaN(a) \/ IsNaN(b) THEN FNaN
        ELSE IF IsInf(a) THEN (IF IsInf(b) THEN FNaN ELSE FInf(s))
        ELSE IF IsInf(b) THEN <<s, 0, 0>>
        ELSE IF IsZero(b) THEN (IF IsZero(a) THEN FNaN ELSE FInf(s))
        ELSE IF IsZero(a) THEN <<s, 0, 0>>
        ELSE FDivFinite(a, b)

\* The comparisons of f32 (PartialOrd): false whenever an operand is NaN,
\* and -0.0 equals 0.0.
Ord(x) == IF x[1] = 0 THEN x[2] * P23 + x[3] ELSE -(x[2] * P23 + x[3])
FLt(a, b) == ~IsNaN(a) /\ ~IsNaN(b) /\ Ord(a) < Ord(b)
FLe(a, b) == ~IsNaN(a) /\ ~IsNaN(b) /\ Ord(a) <= Ord(b)
FGt(a, b) == FLt(b, a)
FGe(a, b) == FLe(b, a)
FEq(a, b) == ~IsNaN(a) /\ ~IsNaN(b) /\ Ord(a) = Ord(b)


-----------------------------------------------------------------------------
(***************************************************************************)
(* Values.  A Vec<f32> is a sequence (Rust index i is element i + 1); a    *)
(* na::DMatrix<f32> is a record [nrows, ncols, at] with at[i][j] the entry *)
(* at (i, j), rows and columns counted from 0 as in the code.  Indexing a  *)
(* Vec or a DMatrix out of range panics.                                   *)
(***************************************************************************)
None == <<>>

Rows(t) == 0 .. (t.nrows - 1)
Cols(t) == 0 .. (t.ncols - 1)

\* na::DMatrix::<f32>::zeros(n_rows, n_cols)
zeros(n_rows, n_cols) ==
    [nrows |-> n_rows, ncols |-> n_cols,
     at |-> [i \in 0 .. (n_rows - 1) |-> [j \in 0 .. (n_cols - 1) |-> FZero]]]

\* The placeholder for `table` before create_augmented_mat has run.
NoTable == zeros(0, 0)

-----------------------------------------------------------------------------
(***************************************************************************)
(* create_augmented_mat(obj, constr, req)                                  *)
(***************************************************************************)
\* Whether one of the indexed writes or reads of the builder is out of
\* range: table[(i, constr.ncols() + i)] (line 107) or req[i - 1] (line 110).
\* The other accesses are in range by the sizes chosen at lines 95-97.
BuilderPanics(obj, constr, req) ==
    LET n_rows == constr.nrows + 1
        n_cols == n_rows + Len(obj) + 1
    IN  \E i \in 1 .. (n_rows - 1) :
            \/ constr.ncols + i >= n_cols
            \/ i - 1 >= Len(req)

\* BuilderEntry with the slack 1.0 written one column to the left
\* (constr.ncols() + i - 1 at line 107).
BuilderEntry_slack_shifted(obj, constr, req, i, j) ==
    LET n_rows == constr.nrows + 1
        n_cols == n_rows + Len(obj) + 1
    IN  IF i = 0
        THEN IF j = 0 THEN FOne
             ELSE IF j - 1 < Len(obj) THEN FNeg(obj[j])
             ELSE FZero
        ELSE IF j >= 1 /\ j = n_cols - 1 THEN req[i]
             ELSE IF j >= 1 /\ j <= constr.ncols THEN constr.at[i - 1][j - 1]
             ELSE IF j = constr.ncols + i - 1 THEN FOne
             ELSE FZero

\* BuilderEntry with the objective coefficients copied without the minus
\* sign of line 102.
BuilderEntry_not_negated(obj, constr, req, i, j) ==
    LET n_rows == constr.nrows + 1
        n_cols == n_rows + Len(obj) + 1
    IN  IF i = 0
        THEN IF j = 0 THEN FOne
             ELSE IF j - 1 < Len(obj) THEN obj[j]
             ELSE FZero
        ELSE IF j >= 1 /\ j = n_cols - 1 THEN req[i]
             ELSE IF j >= 1 /\ j <= constr.ncols THEN constr.at[i - 1][j - 1]
             ELSE IF j = constr.ncols + i THEN FOne
             ELSE FZero

\* The entry the builder leaves at (i, j).  Row 0: 1.0 at column 0, -obj[k]
\* at column k + 1.  Row i >= 1: the writes are, in order, 1.0 at column
\* constr.ncols() + i, then for j in 1..n_cols the requirement at the last
\* column and the constraint coefficient at the columns j <= constr.ncols().
BuilderEntry(obj, constr, req, i, j) ==
    LET n_rows == constr.nrows + 1
        n_cols == n_rows + Len(obj) + 1
    IN  IF i = 0
        THEN IF j = 0 THEN FOne
             ELSE IF j - 1 < Len(obj) THEN FNeg(obj[j])
             ELSE FZero
        ELSE IF j >= 1 /\ j = n_cols - 1 THEN req[i]
             ELSE IF j >= 1 /\ j <= constr.ncols THEN constr.at[i - 1][j - 1]
             ELSE IF j = constr.ncols + i THEN FOne
             ELSE FZero

create_augmented_mat(obj, constr, req) ==
    LET n_rows == constr.nrows + 1
        n_cols == n_rows + Len(obj) + 1
    IN  [nrows |-> n_rows, ncols |-> n_cols,
         at |-> [i \in 0 .. (n_rows - 1) |->
                   [j \in 0 .. (n_cols - 1) |-> BuilderEntry(obj, constr, req, i, j)]]]

-----------------------------------------------------------------------------
(***************************************************************************)
(* get_next_pivot(table): Some((entering column, leaving row)) or None.    *)
(***************************************************************************)
\* Lines 48-59: the scan of row 0 for the entering variable, from column j
\* on, with `entry` the Option<(usize, f32)> found so far.
\* ScanEntry with >= for the > of line 54: a later column with an equal
\* value no longer replaces the one found.
RECURSIVE ScanEntry_keeps_first(_, _, _)
ScanEntry_keeps_first(table, j, entry) ==
    IF j >= table.ncols THEN entry
    ELSE LET v == table.at[0][j]
         IN  IF FGe(v, FZero) THEN ScanEntry_keeps_first(table, j + 1, entry)
             ELSE IF entry # None /\ FGe(v, entry[2])
                  THEN ScanEntry_keeps_first(table, j + 1, entry)
             ELSE ScanEntry_keeps_first(table, j + 1, <<j, v>>)

RECURSIVE ScanEntry(_, _, _)
ScanEntry(table, j, entry) ==
    IF j >= table.ncols THEN entry
    ELSE LET v == table.at[0][j]
         IN  IF FGe(v, FZero) THEN ScanEntry(table, j + 1, entry)
             ELSE IF entry # None /\ FGt(v, entry[2]) THEN ScanEntry(table, j + 1, entry)
             ELSE ScanEntry(table, j + 1, <<j, v>>)

\* Lines 69-80: the scan of the constraint rows for the pivot row, from row
\* i on, with `pivot` the Option<(usize, f32)> found so far.
RECURSIVE ScanPivot_max_ratio(_, _, _, _)
ScanPivot_max_ratio(table, entry_index, i, pivot) ==
    IF i >= table.nrows THEN pivot
    ELSE LET last_coll == table.ncols - 1
             ratio     == FDiv(table.at[i][last_coll], table.at[i][entry_index])
         IN  IF FLt(ratio, FZero) THEN ScanPivot_max_ratio(table, entry_index, i + 1, pivot)
             ELSE IF pivot # None /\ FGe(pivot[2], ratio)
                  THEN ScanPivot_max_ratio(table, entry_index, i + 1, pivot)
             ELSE ScanPivot_max_ratio(table, entry_index, i + 1, <<i, ratio>>)

RECURSIVE ScanPivot(_, _, _, _)
ScanPivot(table, entry_index, i, pivot) ==
    IF i >= table.nrows THEN pivot
    ELSE LET last_coll == table.ncols - 1
             ratio     == FDiv(table.at[i][last_coll], table.at[i][entry_index])
         IN  IF FLt(ratio, FZero) THEN ScanPivot(table, entry_index, i + 1, pivot)
             ELSE IF pivot # None /\ FLe(pivot[2], ratio)
                  THEN ScanPivot(table, entry_index, i + 1, pivot)
             ELSE ScanPivot(table, entry_index, i + 1, <<i, ratio>>)

get_next_pivot(table) ==
    LET entry == ScanEntry(table, 1, None)
    IN  IF entry = None THEN None
        ELSE LET pivot == ScanPivot(table, entry[1], 1, None)
             IN  IF pivot # None THEN <<entry[1], pivot[1]>> ELSE None

-----------------------------------------------------------------------------
(***************************************************************************)
(* apply_row_operations(pivot, table); pivot = (column, row).              *)
(***************************************************************************)
\* Lines 34-36: the update of one row, from column j on.  target_entry was
\* read at line 33, before the row is written; prow is the pivot row, which
\* the pass never writes.
\* UpdateRow reading row[col] anew at every column instead of the value
\* captured at line 33.
RECURSIVE UpdateRow_target_not_captured(_, _, _, _, _, _)
UpdateRow_target_not_captured(row, prow, col, target_entry, j, ncols) ==
    IF j >= ncols THEN row
    ELSE UpdateRow_target_not_captured(
             [row EXCEPT ![j] =
                 FAdd(row[j], FMul(FDiv(prow[j], prow[col]), FNeg(row[col])))],
             prow, col, target_entry, j + 1, ncols)

\* UpdateRow without the minus sign of line 35.
RECURSIVE UpdateRow_not_negated(_, _, _, _, _, _)
UpdateRow_not_negated(row, prow, col, target_entry, j, ncols) ==
    IF j >= ncols THEN row
    ELSE UpdateRow_not_negated(
             [row EXCEPT ![j] =
                 FAdd(row[j], FMul(FDiv(prow[j], prow[col]), target_entry))],
             prow, col, target_entry, j + 1, ncols)

RECURSIVE UpdateRow(_, _, _, _, _, _)
UpdateRow(row, prow, col, target_entry, j, ncols) ==
    IF j >= ncols THEN row
    ELSE UpdateRow([row EXCEPT ![j] =
                        FAdd(row[j], FMul(FDiv(prow[j], prow[col]), FNeg(target_entry)))],
                   prow, col, target_entry, j + 1, ncols)

\* apply_row_operations dividing the pivot row by the pivot entry as well,
\* as the textbook pivot does.
apply_row_operations_scales_pivot_row(pivot, table) ==
    [table EXCEPT !.at =
        [i \in Rows(table) |->
            IF pivot[2] = i
            THEN [j \in Cols(table) |->
                     FDiv(table.at[i][j], table.at[i][pivot[1]])]
            ELSE UpdateRow(table.at[i], table.at[pivot[2]], pivot[1],
                           table.at[i][pivot[1]], 0, table.ncols)]]

\* apply_row_operations returning only the rows it has updated, without
\* the pivot row that the `continue` of line 30 skips.
apply_row_operations_drops_pivot_row(pivot, table) ==
    [nrows |-> table.nrows - 1,
     ncols |-> table.ncols,
     at    |-> [i \in 0 .. (table.nrows - 2) |->
                  LET k == IF i < pivot[2] THEN i ELSE i + 1
                  IN  UpdateRow(table.at[k], table.at[pivot[2]], pivot[1],
                                table.at[k][pivot[1]], 0, table.ncols)]]

apply_row_operations(pivot, table) ==
    [table EXCEPT !.at =
        [i \in Rows(table) |->
            IF pivot[2] = i THEN table.at[i]
            ELSE UpdateRow(table.at[i], table.at[pivot[2]], pivot[1],
                           table.at[i][pivot[1]], 0, table.ncols)]]

-----------------------------------------------------------------------------
(***************************************************************************)
(* The inputs.  simplex_method takes constr, req, obj (and with_print,     *)
(* which only prints and is left out).                                     *)
(***************************************************************************)
\* Bounds of the input family: constraint coefficients -1..MaxCoef,
\* requirements 0..MaxReq, and the number of passes of the solve loop that
\* are followed.  Objective coefficients are 0.0 or 1.0.
MaxCoef   == 1
MaxReq    == 1
MaxPivots == 4

\* The shapes <<constraints, variables>> of the family.
Shapes == {<<2, 2>>, <<3, 1>>}

ObjVals  == {FZero, FOne}
CoefVals == {FromInt(k) : k \in (-1) .. MaxCoef}
ReqVals  == {FromInt(k) : k \in 0 .. MaxReq}

Vec(ints) == [k \in 1 .. Len(ints) |-> FromInt(ints[k])]
\* na::DMatrix::from_row_slice(nrows, ncols, data)
from_row_slice(n_rows, n_cols, data) ==
    [nrows |-> n_rows, ncols |-> n_cols,
     at |-> [i \in 0 .. (n_rows - 1) |->
               [j \in 0 .. (n_cols - 1) |-> FromInt(data[i * n_cols + j + 1])]]]

\* The inputs of simplex_test_problem1 and simplex_test_problem2.
Problem1 ==
    [obj    |-> Vec(<<20000, 45000, 85000>>),
     constr |-> from_row_slice(4, 3, <<10, 15, 10,  13, 5, 5,  20, 5, 10,  0, 0, 1>>),
     req    |-> Vec(<<720, 680, 550, 7>>)]
Problem2 ==
    [obj    |-> Vec(<<7, 5>>),
     constr |-> from_row_slice(2, 2, <<2, 3,  3, 2>>),
     req    |-> Vec(<<90, 120>>)]

Family ==
    UNION {
      { [obj |-> o, constr |-> [nrows |-> sh[1], ncols |-> sh[2], at |-> a], req |-> r] :
          o \in [1 .. sh[2] -> ObjVals],
          a \in [0 .. (sh[1] - 1) -> [0 .. (sh[2] - 1) -> CoefVals]],
          r \in [1 .. sh[1] -> ReqVals] } : sh \in Shapes }

Inputs == Family \cup {Problem1, Problem2}

\* Calls whose lengths need not agree: a constraint matrix of DimShape, an
\* objective of 1 or 2 entries, a requirement vector of 2, 3 or 4 entries.
DimShape == <<3, 1>>
DimInputs ==
    { [obj |-> o, constr |-> [nrows |-> DimShape[1], ncols |-> DimShape[2], at |-> a],
       req |-> r] :
        o \in UNION {[1 .. k -> ObjVals] : k \in DimShape[2] .. (DimShape[2] + 1)},
        a \in [0 .. (DimShape[1] - 1) -> [0 .. (DimShape[2] - 1) -> CoefVals]],
        r \in UNION {[1 .. k -> ReqVals] : k \in (DimShape[1] - 1) .. (DimShape[1] + 1)} }

\* The preconditions of the call: the lengths agree, no requirement is
\* negative.
DimsAgree(in) == Len(in.req) = in.constr.nrows /\ Len(in.obj) = in.constr.ncols
Valid(in) == DimsAgree(in) /\ \A k \in 1 .. Len(in.req) : FGe(in.req[k], FZero)

-----------------------------------------------------------------------------
(***************************************************************************)
(* simplex_method: the driver.                                             *)
(*   input   the arguments (obj, constr, req) of the call                  *)
(*   table   the local `table`                                             *)
(*   pivot   the local `pivot` of the last pass of the while loop          *)
(*   pc      "Start" before line 11, "Running" in the loop of lines 15-21, *)
(*           "Optimal" once `table` is returned at line 22, "Panicked" if   *)
(*           an index was out of range                                     *)
(*   npivots the number of passes of the loop made (capped by MaxPivots)   *)
(*   basis   for each constraint row, the column it owns: its slack column *)
(*           at first, then the entering column of the last pivot on it    *)
(***************************************************************************)
VARIABLES input, table, pivot, pc, npivots, basis

(***************************************************************************)
(* The state of the other entry points of the crate, which share nothing   *)
(* with the solver (src/src/lib.rs declares them as separate modules):     *)
(*   p1, p2, points     the arguments and the result of one call of        *)
(*                      bresenham::rasterize                               *)
(*   call, mpc, tpc, senders, chan, received                               *)
(*                      one call of a channel-based image function and the *)
(*                      loop that consumes its receiver                    *)
(* Each specification runs one entry point and leaves the others idle.     *)
(***************************************************************************)
VARIABLES p1, p2, points
VARIABLES call, mpc, tpc, senders, chan, received

simplex_vars == <<input, table, pivot, pc, npivots, basis>>
raster_vars  == <<p1, p2, points>>
img_vars     == <<call, mpc, tpc, senders, chan, received>>

vars == <<simplex_vars, raster_vars, img_vars>>

SimplexIdle ==
    /\ input = None
    /\ table = NoTable
    /\ pivot = None
    /\ pc = "Idle"
    /\ npivots = 0
    /\ basis = <<>>

RasterIdle ==
    /\ p1 = None
    /\ p2 = None
    /\ points = None

ImgIdle ==
    /\ call = None
    /\ mpc = "Idle"
    /\ tpc = <<>>
    /\ senders = 0
    /\ chan = <<>>
    /\ received = <<>>

Init ==
    /\ input \in Inputs
    /\ table = NoTable
    /\ pivot = None
    /\ pc = "Start"
    /\ npivots = 0
    /\ basis = <<>>
    /\ RasterIdle
    /\ ImgIdle

\* Line 11: let mut table = create_augmented_mat(obj, constr, req);
Build ==
    /\ pc = "Start"
    /\ IF BuilderPanics(input.obj, input.constr, input.req)
       THEN /\ pc' = "Panicked"
            /\ UNCHANGED <<table, basis>>
       ELSE /\ pc' = "Running"
            /\ table' = create_augmented_mat(input.obj, input.constr, input.req)
            /\ basis' = [i \in 1 .. input.constr.nrows |-> input.constr.ncols + i]
    /\ UNCHANGED <<input, pivot, npivots>>
    /\ UNCHANGED <<raster_vars, img_vars>>

\* Lines 15-16: get_next_pivot returned Some(pivot); the loop body runs.
Pivot ==
    /\ pc = "Running"
    /\ npivots < MaxPivots
    /\ get_next_pivot(table) # None
    /\ pivot' = get_next_pivot(table)
    /\ table' = apply_row_operations(pivot', table)
    /\ npivots' = npivots + 1
    /\ basis' = [basis EXCEPT ![pivot'[2]] = pivot'[1]]
    /\ UNCHANGED <<input, pc>>
    /\ UNCHANGED <<raster_vars, img_vars>>

\* Return without the test of line 15: the loop may end while a pivot is
\* still offered.
Return_without_test ==
    /\ pc = "Running"
    /\ pc' = "Optimal"
    /\ UNCHANGED <<input, table, pivot, npivots, basis>>
    /\ UNCHANGED <<raster_vars, img_vars>>

\* Lines 15, 22: get_next_pivot returned None; the loop ends and `table` is
\* returned.
Return ==
    /\ pc = "Running"
    /\ get_next_pivot(table) = None
    /\ pc' = "Optimal"
    /\ UNCHANGED <<input, table, pivot, npivots, basis>>
    /\ UNCHANGED <<raster_vars, img_vars>>

Next == Build \/ Pivot \/ Return

Spec == Init /\ [][Next]_vars

\* The same driver, called with lengths that need not agree.
DimInit ==
    /\ input \in DimInputs
    /\ table = NoTable
    /\ pivot = None
    /\ pc = "Start"
    /\ npivots = 0
    /\ basis = <<>>
    /\ RasterIdle
    /\ ImgIdle

DimSpec == DimInit /\ [][Next]_vars


-----------------------------------------------------------------------------
(***************************************************************************)
(* Properties.                                                             *)
(***************************************************************************)
Built      == pc = "Running" /\ npivots = 0
NumVars    == Len(input.obj)
NumConstr  == input.constr.nrows
LastCol    == table.ncols - 1
\* The objective value: row 0, last column.
ObjValue   == table.at[0][LastCol]
\* The solve loop has not been cut short by the bound on its passes.
NotCut     == ~(pc = "Running" /\ npivots = MaxPivots /\ get_next_pivot(table) # None)

\* C2: for the first worked example (objective [20000, 45000, 85000],
\* constraints [[10,15,10],[13,5,5],[20,5,10],[0,0,1]], requirements
\* [720,680,550,7]) the solve loop ends, and the returned tableau holds
\* 2,545,000 at row 0, column 8.
C2_Problem1 ==
    input = Problem1 =>
        /\ NotCut
        /\ pc = "Optimal" => LastCol = 8 /\ FEq(table.at[0][8], FromInt(2545000))
C2_Witness == input = Problem1 /\ pc = "Optimal" /\ npivots > 0

\* C3: for the second worked example (objective [7,5], constraints
\* [[2,3],[3,2]], requirements [90,120]) the solve loop ends, and the
\* returned tableau holds 282 at row 0, column 5.
C3_Problem2 ==
    input = Problem2 =>
        /\ NotCut
        /\ pc = "Optimal" => LastCol = 5 /\ FEq(table.at[0][5], FromInt(282))
C3_Witness == input = Problem2 /\ pc = "Optimal" /\ npivots > 1

\* C8: the tableau built from a valid (obj, constr, req) has constr.rows + 1
\* rows and constr.rows + obj.len + 2 columns, and its slack block (rows
\* 1..end, columns obj.len+1 .. obj.len+constr.rows) is the identity matrix.
C8_BuilderShape ==
    Valid(input) /\ Built =>
        /\ table.nrows = NumConstr + 1
        /\ table.ncols = NumConstr + NumVars + 2
        /\ DOMAIN table.at = 0 .. NumConstr
        /\ \A i \in 1 .. NumConstr :
              /\ DOMAIN table.at[i] = 0 .. (NumConstr + NumVars + 1)
              /\ \A k \in 1 .. NumConstr :
                    table.at[i][NumVars + k] = IF i = k THEN FOne ELSE FZero
C8_Witness == Valid(input) /\ Built /\ NumConstr = 3 /\ table.at[3][NumVars + 3] = FOne

\* C9: the tableau built from a valid (obj, constr, req) has row 0 equal to
\* [1, -obj[0], ..., -obj[numVars-1], 0, ..., 0], and each constraint row i
\* has 0 in column 0, constr[i-1][j-1] in the columns j = 1..numVars and
\* req[i-1] in the last column.
C9_BuilderEntries ==
    Valid(input) /\ Built =>
        /\ table.at[0][0] = FOne
        /\ \A j \in 1 .. NumVars : table.at[0][j] = FNeg(input.obj[j])
        /\ \A j \in (NumVars + 1) .. LastCol : table.at[0][j] = FZero
        /\ \A i \in 1 .. NumConstr :
              /\ table.at[i][0] = FZero
              /\ \A j \in 1 .. NumVars : table.at[i][j] = input.constr.at[i - 1][j - 1]
              /\ table.at[i][LastCol] = input.req[i]
C9_Witness ==
    /\ Valid(input) /\ Built
    /\ input.obj[1] = FOne /\ table.at[0][1] = FNeg(FOne)
    /\ input.req[NumConstr] = FOne /\ input.constr.at[0][0] = FNeg(FOne)

\* C10: the driver starts Running once the tableau is built; while
\* get_next_pivot yields a pivot it applies apply_row_operations once with
\* that pivot and stays Running; when get_next_pivot yields none it moves to
\* Optimal with the tableau as it is; nothing happens after Optimal, and the
\* driver is in no other state.
C10_Driver ==
    /\ [](pc \in {"Start", "Running", "Optimal"})
    /\ [][ /\ pc = "Start" => pc' = "Running" /\ npivots' = 0
           /\ pc = "Running" /\ get_next_pivot(table) # None =>
                 /\ pc' = "Running"
                 /\ table' = apply_row_operations(get_next_pivot(table), table)
                 /\ npivots' = npivots + 1
           /\ pc = "Running" /\ get_next_pivot(table) = None =>
                 pc' = "Optimal" /\ table' = table /\ npivots' = npivots
           /\ pc # "Optimal" ]_vars
C10_Witness == pc = "Optimal" /\ npivots >= 2


-----------------------------------------------------------------------------
(***************************************************************************)
(* The reference for C1: the linear program max obj.x subject to           *)
(* constr.x <= req, x >= 0, solved exactly over the rationals.  The inputs *)
(* of the family are small integers held in f32.                           *)
(***************************************************************************)
\* The integer an f32 holds (for the integers of the family).
IntVal(x) ==
    IF IsZero(x) THEN 0
    ELSE LET mag == IF Exp(x) >= 0 THEN Sig(x) * (2^Exp(x)) ELSE Sig(x) \div (2^(-Exp(x)))
         IN  IF x[1] = 1 THEN -mag ELSE mag

RECURSIVE SumTo(_, _)
\* f[1] + ... + f[k]
SumTo(f, k) == IF k = 0 THEN 0 ELSE f[k] + SumTo(f, k - 1)

\* The determinant of the k x k integer matrix M (a sequence of rows), by
\* expansion along its first row.
RECURSIVE Det(_, _)
Det(M, k) ==
    IF k = 1 THEN M[1][1]
    ELSE SumTo([j \in 1 .. k |->
                   (IF j % 2 = 1 THEN 1 ELSE -1) * M[1][j] *
                   Det([r \in 1 .. (k - 1) |->
                           [c \in 1 .. (k - 1) |-> M[r + 1][IF c < j THEN c ELSE c + 1]]],
                       k - 1)], k)

RECURSIVE SortedSeq(_)
SortedSeq(S) ==
    IF S = {} THEN <<>>
    ELSE LET x == CHOOSE y \in S : \A z \in S : y <= z
         IN  <<x>> \o SortedSeq(S \ {x})

\* The m + n inequalities g.x <= h of the program: the m constraints, then
\* -x[j] <= 0 for each variable.
LpRow(in, g) ==
    LET m == in.constr.nrows
    IN  [j \in 1 .. Len(in.obj) |->
            IF g <= m THEN IntVal(in.constr.at[g - 1][j - 1])
            ELSE IF j = g - m THEN -1 ELSE 0]
LpRhs(in, g) == IF g <= in.constr.nrows THEN IntVal(in.req[g]) ELSE 0

\* The objective values <<N, D>> (N / D, D > 0) of the feasible basic
\* solutions: the points where n independent inequalities are tight and all
\* the others hold.
VertexValues(in) ==
    LET n == Len(in.obj)
        m == in.constr.nrows
        At(T) ==
            LET t    == SortedSeq(T)
                G    == [r \in 1 .. n |-> LpRow(in, t[r])]
                D    == Det(G, n)
                sg   == IF D < 0 THEN -1 ELSE 1
                xnum == [k \in 1 .. n |->
                           sg * Det([r \in 1 .. n |->
                                       [c \in 1 .. n |->
                                          IF c = k THEN LpRhs(in, t[r]) ELSE G[r][c]]], n)]
                feasible ==
                    \A g \in 1 .. (m + n) :
                        SumTo([j \in 1 .. n |-> LpRow(in, g)[j] * xnum[j]], n)
                            <= LpRhs(in, g) * sg * D
            IN  IF D # 0 /\ feasible
                THEN {<<SumTo([j \in 1 .. n |-> IntVal(in.obj[j]) * xnum[j]], n), sg * D>>}
                ELSE {}
    IN  UNION {At(T) : T \in {U \in SUBSET (1 .. (m + n)) : Cardinality(U) = n}}

\* The optimal objective value: the largest value at a feasible basic solution.
RefOptimum(in) ==
    CHOOSE v \in VertexValues(in) : \A w \in VertexValues(in) : w[1] * v[2] <= v[1] * w[2]

\* The program has a finite optimum: no direction d >= 0 with constr.d <= 0
\* improves the objective.  For at most two variables the directions with
\* integer entries up to the largest coefficient decide it.
FiniteOptimum(in) ==
    LET n == Len(in.obj)
        m == in.constr.nrows
    IN  ~ \E d \in [1 .. n -> 0 .. (MaxCoef + 1)] :
            /\ SumTo([j \in 1 .. n |-> IntVal(in.obj[j]) * d[j]], n) > 0
            /\ \A g \in 1 .. m : SumTo([j \in 1 .. n |-> LpRow(in, g)[j] * d[j]], n) <= 0

\* The odd part o and the exponent t of a significand: sig * 2^e = o * 2^t,
\* with o odd or t = 0 reached from below.
RECURSIVE Strip(_, _)
Strip(sig, e) == IF e < 0 /\ sig % 2 = 0 THEN Strip(sig \div 2, e + 1) ELSE <<sig, e>>

\* The f32 x is exactly the rational v[1] / v[2] (integers below 2^20, v[2] > 0).
FEqRat(x, v) ==
    LET N  == IF v[1] < 0 THEN -v[1] ELSE v[1]
        D  == v[2]
        st == Strip(Sig(x), Exp(x))
        o  == st[1]
        t  == -st[2]
    IN  IF IsNaN(x) \/ IsInf(x) THEN FALSE
        ELSE IF IsZero(x) THEN N = 0
        ELSE /\ N # 0
             /\ (x[1] = 1) = (v[1] < 0)
             /\ IF t <= 0
                THEN BitLen(o) - t <= 20 /\ o * (2^(-t)) * D = N
                ELSE t <= 20 /\ D % (2^t) = 0 /\ o <= N /\ o * (D \div (2^t)) = N

\* C1: for every valid input of the family whose program has a finite
\* optimum, the returned tableau holds at row 0, last column, exactly the
\* optimal objective value of the program.
C1_OptimalValue ==
    (input \in Family /\ Valid(input) /\ FiniteOptimum(input) /\ pc = "Optimal")
        => FEqRat(ObjValue, RefOptimum(input))


\* The selector's situation C4 is about: row 0 has a strictly negative entry
\* in the entering column get_next_pivot chooses, and no constraint row has
\* a strictly positive coefficient in that column.
UnboundedDirection(t) ==
    LET entry == ScanEntry(t, 1, None)
    IN  /\ entry # None
        /\ FLt(entry[2], FZero)
        /\ \A i \in 1 .. (t.nrows - 1) : ~FGt(t.at[i][entry[1]], FZero)

\* C4: when the entering column has a negative objective-row entry and no
\* constraint row has a strictly positive coefficient in it, the solve does
\* not stop in Optimal with the current tableau as its result (it reports
\* Unbounded instead).
C4_UnboundedReported ==
    (Valid(input) /\ pc = "Optimal") => ~UnboundedDirection(table)

\* C5: when the requirement vector's length differs from the number of
\* constraint rows, or the objective's length from the number of constraint
\* columns, the solve fails while the tableau is built: the loop is never
\* entered and no pivot is selected or applied.
C5_InvalidDimensions ==
    ~DimsAgree(input) => (pc \notin {"Running", "Optimal"} /\ npivots = 0)

\* C6: from a tableau built with non-negative requirements, every pivot
\* leaves the objective value (row 0, last column) greater than or equal to
\* what it was, and strictly greater unless the ratio of the leaving row is
\* zero.
C6_Monotone ==
    [][ (Valid(input) /\ pc = "Running" /\ npivots' = npivots + 1) =>
          LET p     == get_next_pivot(table)
              ratio == FDiv(table.at[p[2]][LastCol], table.at[p[2]][p[1]])
          IN  /\ FGe(ObjValue', ObjValue)
              /\ ~FEq(ratio, FZero) => FGt(ObjValue', ObjValue) ]_vars

\* C7 as stated, on the second worked example: after every pivot each basic
\* column (the slack column of each row at first, then the entering column
\* of the last pivot on the row) is a unit vector, 1 in its owning row and 0
\* in every other row, row 0 included.
C7_UnitBasis_Problem2 ==
    (input = Problem2 /\ pc \in {"Running", "Optimal"}) =>
        \A r \in 1 .. NumConstr : \A i \in Rows(table) :
            FEq(table.at[i][basis[r]], IF i = r THEN FOne ELSE FZero)

\* C7, amended: after every pivot each basic column is 0 in every row other
\* than its owning row, row 0 included (or NaN there, once a zero pivot
\* entry has been divided by); the entry in the owning row is left unscaled.
C7_BasisColumns ==
    (Valid(input) /\ pc \in {"Running", "Optimal"}) =>
        \A r \in 1 .. NumConstr : \A i \in Rows(table) \ {r} :
            IsZero(table.at[i][basis[r]]) \/ IsNaN(table.at[i][basis[r]])
C7_Witness ==
    /\ input = Problem2 /\ npivots = 2
    /\ basis = <<2, 1>>
    /\ table.at[2][1] = FromInt(3)
    /\ IsZero(table.at[0][1]) /\ IsZero(table.at[1][1])

-----------------------------------------------------------------------------
(***************************************************************************)
(* src/src/bresenham.rs: rasterize(p1, p2), the pixels of a line computed  *)
(* with an f32 error term.                                                 *)
(***************************************************************************)

\* Largest absolute coordinate of the end points tried.
MaxCoord == 2

Coords == (-MaxCoord) .. MaxCoord

\* Point::new (lines 8-10).
Point(x, y) == [x |-> x, y |-> y]

\* The end points of brezenheim_test (line 79).
TestLine == <<Point(0, 0), Point(8, 3)>>

RasterInputs ==
    {<<Point(a, b), Point(c, d)>> : a \in Coords, b \in Coords,
                                    c \in Coords, d \in Coords}
        \cup {TestLine}

\* i32::abs (lines 35-36).
Abs(n) == IF n < 0 THEN -n ELSE n

\* The literal -0.5 of line 38.
NegHalf == <<1, 126, 0>>

\* Lines 41-54: the map over 0..=dy, whose closure carries x, y and e from
\* one item to the next.
RECURSIVE MapSteep(_, _, _, _, _, _, _, _)
MapSteep(i, dy, x, y, e, delta, x_sign, y_sign) ==
    IF i > dy THEN <<>>
    ELSE IF i = 0
         THEN <<Point(x, y)>> \o MapSteep(1, dy, x, y, e, delta, x_sign, y_sign)
         ELSE LET e1  == FAdd(e, delta)
                  y1  == y + y_sign
                  hit == FGe(e1, FZero)
                  x1  == IF hit THEN x + x_sign ELSE x
                  e2  == IF hit THEN FAdd(e1, FNeg(FOne)) ELSE e1
              IN  <<Point(x1, y1)>>
                      \o MapSteep(i + 1, dy, x1, y1, e2, delta, x_sign, y_sign)

\* Lines 57-70: the map over 0..=dx.
RECURSIVE MapShallow(_, _, _, _, _, _, _, _)
MapShallow(i, dx, x, y, e, delta, x_sign, y_sign) ==
    IF i > dx THEN <<>>
    ELSE IF i = 0
         THEN <<Point(x, y)>> \o MapShallow(1, dx, x, y, e, delta, x_sign, y_sign)
         ELSE LET e1  == FAdd(e, delta)
                  x1  == x + x_sign
                  hit == FGe(e1, FZero)
                  y1  == IF hit THEN y + y_sign ELSE y
                  e2  == IF hit THEN FAdd(e1, FNeg(FOne)) ELSE e1
              IN  <<Point(x1, y1)>>
                      \o MapShallow(i + 1, dx, x1, y1, e2, delta, x_sign, y_sign)

\* Lines 28-72.
rasterize(q1, q2) ==
    IF q1 = q2 THEN <<q1>>
    ELSE LET sdx    == q2.x - q1.x
             sdy    == q2.y - q1.y
             x_sign == IF sdx > 0 THEN 1 ELSE -1
             y_sign == IF sdy > 0 THEN 1 ELSE -1
             dx     == Abs(sdx)
             dy     == Abs(sdy)
         IN  IF dy > dx
             THEN MapSteep(0, dy, q1.x, q1.y, NegHalf,
                           FDiv(FAdd(FromInt(dx), FOne), FAdd(FromInt(dy), FOne)),
                           x_sign, y_sign)
             ELSE MapShallow(0, dx, q1.x, q1.y, NegHalf,
                             FDiv(FAdd(FromInt(dy), FOne), FAdd(FromInt(dx), FOne)),
                             x_sign, y_sign)

RasterInit ==
    /\ \E in \in RasterInputs : p1 = in[1] /\ p2 = in[2]
    /\ points = None
    /\ SimplexIdle
    /\ ImgIdle

\* One call of rasterize.
Rasterize ==
    /\ points = None
    /\ points' = rasterize(p1, p2)
    /\ UNCHANGED <<p1, p2, simplex_vars, img_vars>>

RasterNext == Rasterize

RasterSpec == RasterInit /\ [][RasterNext]_vars

\* C11: the pixel sequence returned by rasterize(p1, p2) starts at p1 and
\* ends at p2.
C11_Endpoints ==
    points # None => (points[1] = p1 /\ points[Len(points)] = p2)

\* The result on the end points of brezenheim_test is the list the test
\* expects (lines 80-90): the last pixel is (8, 4), not p2 = (8, 3).
TestLineExpected ==
    (<<p1, p2>> = TestLine /\ points # None) =>
        points = <<Point(0, 0), Point(1, 0), Point(2, 1), Point(3, 1), Point(4, 2),
                   Point(5, 2), Point(6, 3), Point(7, 3), Point(8, 4)>>

-----------------------------------------------------------------------------
(***************************************************************************)
(* src/src/img/functions.rs and src/src/img.rs: the functions that apply   *)
(* a list of filters (or mix rules) in parallel and send each result,      *)
(* tagged with the filter's name, on an std::sync::mpsc channel, and the   *)
(* `for ... in receiver` loop of their tests that consumes it.             *)
(*                                                                         *)
(*   call      [fn, items]: the function called and its filters' names     *)
(*   mpc       the calling thread: "Call" inside the function, "Iterate"   *)
(*             in the loop over the receiver, "Done" after the loop        *)
(*   tpc       per item, the closure that handles it: "Pending",           *)
(*             "Spawned" (its thread owns a clone of the sender), "Sent",  *)
(*             "Exited" (its thread has ended and dropped its clone),      *)
(*             "Panicked" (send returned Err and unwrap panicked)          *)
(*   senders   the number of live Sender handles of the channel            *)
(*   chan      the messages sent and not yet received, oldest first        *)
(*   received  the items the loop has got                                  *)
(* A message is [item, name]: item i stands for the image computed with    *)
(* the i-th filter.  The channel is unbounded: send never blocks, it fails *)
(* only when the receiver is gone; the iteration of a receiver ends when   *)
(* the channel is empty and every sender has been dropped.                 *)
(***************************************************************************)

\* Longest list of filters tried.
MaxFilters == 2

\* The names of the filters of img_test_1_edge_detection (img/mod.rs lines
\* 20-25, img/types.rs lines 106-118) and of the rules of img_test_2_cover
\* (img/mod.rs lines 47-50, img/types.rs lines 23-24, 50-51).
FilterNames == {"prewitt_vertical", "prewitt_horizontal"}
MixRuleNames == {"screen", "linear_dodge"}

SeqsUpTo(S, n) == UNION {[1 .. k -> S] : k \in 0 .. n}

Spawning == {"apply_filters_parallel"}
Rayon    == {"apply_filters3x3_parallel", "mix_two_images_parallel"}

Calls ==
    {[fn |-> f, items |-> l] :
        f \in {"apply_filters_parallel", "apply_filters3x3_parallel"},
        l \in SeqsUpTo(FilterNames, MaxFilters)}
    \cup {[fn |-> "mix_two_images_parallel", items |-> l] :
            l \in SeqsUpTo(MixRuleNames, MaxFilters)}

Items == 1 .. Len(call.items)

\* (image, filter.name())
Message(i) == [item |-> i, name |-> call.items[i]]

\* mpsc::channel() has made one Sender; the function is entered.
ImgInit ==
    /\ call \in Calls
    /\ mpc = "Call"
    /\ tpc = [i \in 1 .. Len(call.items) |-> "Pending"]
    /\ senders = 1
    /\ chan = <<>>
    /\ received = <<>>
    /\ SimplexIdle
    /\ RasterIdle

\* img.rs lines 149-153, 158: one pass of `for filter in filters`: the
\* sender is cloned and a thread is spawned that owns the clone.
Spawn ==
    /\ mpc = "Call"
    /\ call.fn \in Spawning
    /\ \E i \in Items :
          /\ tpc[i] = "Pending"
          /\ \A k \in 1 .. (i - 1) : tpc[k] # "Pending"
          /\ tpc' = [tpc EXCEPT ![i] = "Spawned"]
    /\ senders' = senders + 1
    /\ UNCHANGED <<call, mpc, chan, received, simplex_vars, raster_vars>>

\* The function returns and the caller keeps its sender alive (as if the
\* function had borrowed it).
ReturnSpawner_keeps_sender ==
    /\ mpc = "Call"
    /\ call.fn \in Spawning
    /\ \A i \in Items : tpc[i] # "Pending"
    /\ mpc' = "Iterate"
    /\ UNCHANGED <<call, tpc, senders, chan, received, simplex_vars, raster_vars>>

\* img.rs line 159: the loop is over and apply_filters_parallel returns,
\* dropping its parameter `sender`; the caller goes on to its loop over the
\* receiver (img.rs line 198).
ReturnSpawner ==
    /\ mpc = "Call"
    /\ call.fn \in Spawning
    /\ \A i \in Items : tpc[i] # "Pending"
    /\ senders' = senders - 1
    /\ mpc' = "Iterate"
    /\ UNCHANGED <<call, tpc, chan, received, simplex_vars, raster_vars>>

\* img.rs lines 154-156: the spawned thread sends its image and unwraps
\* the result.
ThreadSend ==
    /\ call.fn \in Spawning
    /\ \E i \in Items :
          /\ tpc[i] = "Spawned"
          /\ IF mpc = "Done"
             THEN /\ tpc' = [tpc EXCEPT ![i] = "Panicked"]
                  /\ UNCHANGED chan
             ELSE /\ tpc' = [tpc EXCEPT ![i] = "Sent"]
                  /\ chan' = Append(chan, Message(i))
    /\ UNCHANGED <<call, mpc, senders, received, simplex_vars, raster_vars>>

\* img.rs line 157: the thread's closure ends (or unwinds) and drops s_chan.
ThreadExit ==
    /\ call.fn \in Spawning
    /\ \E i \in Items :
          /\ tpc[i] \in {"Sent", "Panicked"}
          /\ tpc' = [tpc EXCEPT ![i] = "Exited"]
    /\ senders' = senders - 1
    /\ UNCHANGED <<call, mpc, chan, received, simplex_vars, raster_vars>>

\* functions.rs lines 32, 59: for_each_with clones its init value, the
\* sender among it, for one more job, at most one job per item.
RayonSplit ==
    /\ mpc = "Call"
    /\ call.fn \in Rayon
    /\ \E i \in Items : tpc[i] = "Pending"
    /\ senders < Len(call.items)
    /\ senders' = senders + 1
    /\ UNCHANGED <<call, mpc, tpc, chan, received, simplex_vars, raster_vars>>

\* functions.rs lines 44, 60-61: the closure of for_each_with runs on one
\* item, in any order, and sends its result; the receiver is alive, as the
\* function still holds it.
RayonSend ==
    /\ mpc = "Call"
    /\ call.fn \in Rayon
    /\ \E i \in Items :
          /\ tpc[i] = "Pending"
          /\ tpc' = [tpc EXCEPT ![i] = "Sent"]
          /\ chan' = Append(chan, Message(i))
    /\ UNCHANGED <<call, mpc, senders, received, simplex_vars, raster_vars>>

\* functions.rs lines 45-46, 62-63: for_each_with returns once every item
\* has been handled; the sender and all its clones have been dropped with
\* the jobs that owned them; the function returns the receiver and the
\* caller goes on to its loop over it (img/mod.rs lines 29, 54).
RayonReturn ==
    /\ mpc = "Call"
    /\ call.fn \in Rayon
    /\ \A i \in Items : tpc[i] = "Sent"
    /\ senders' = 0
    /\ mpc' = "Iterate"
    /\ UNCHANGED <<call, tpc, chan, received, simplex_vars, raster_vars>>

\* img/mod.rs lines 29-32, 54-64, img.rs lines 198-201: one pass of
\* `for (..) in receiver`.
Recv ==
    /\ mpc = "Iterate"
    /\ chan # <<>>
    /\ received' = Append(received, Head(chan))
    /\ chan' = Tail(chan)
    /\ UNCHANGED <<call, mpc, tpc, senders, simplex_vars, raster_vars>>

\* The iterator returns None: the channel is empty and disconnected.
Disconnect ==
    /\ mpc = "Iterate"
    /\ chan = <<>>
    /\ senders = 0
    /\ mpc' = "Done"
    /\ UNCHANGED <<call, tpc, senders, chan, received, simplex_vars, raster_vars>>

ImgNext ==
    \/ Spawn \/ ReturnSpawner \/ ThreadSend \/ ThreadExit
    \/ RayonSplit \/ RayonSend \/ RayonReturn
    \/ Recv \/ Disconnect

\* Every thread that can take a step is eventually scheduled.
ImgSpec == ImgInit /\ [][ImgNext]_vars /\ WF_vars(ImgNext)

\* Every message sent so far: those received, then those still queued.
SentSoFar == received \o chan

ExactlyOncePerItem ==
    /\ \A k \in 1 .. Len(SentSoFar) :
          /\ SentSoFar[k].item \in Items
          /\ SentSoFar[k] = Message(SentSoFar[k].item)
    /\ \A j \in 1 .. Len(SentSoFar) : \A k \in 1 .. Len(SentSoFar) :
          j # k => SentSoFar[j].item # SentSoFar[k].item
    /\ \A i \in Items :
          tpc[i] \in {"Sent", "Exited"} <=>
              \E k \in 1 .. Len(SentSoFar) : SentSoFar[k].item = i

ConsumerGotAll ==
    mpc = "Done" =>
        /\ Len(received) = Len(call.items)
        /\ chan = <<>>
        /\ senders = 0
        /\ \A i \in Items : tpc[i] \in {"Sent", "Exited"}

\* C12: for a list of n filters or mix rules, under every interleaving of
\* the worker threads, exactly one message per filter is sent, tagged with
\* that filter's name; every sender handle is eventually dropped, and the
\* loop over the receiver gets the n items and then ends.
C12_Channel ==
    /\ [](mpc # "Idle" => (ExactlyOncePerItem /\ ConsumerGotAll))
    /\ <>(mpc = "Done" /\ senders = 0 /\ Len(received) = Len(call.items))

\* The spawning function, two filters, the second thread's image received
\* first, and the loop over.
C12_Witness ==
    /\ call.fn = "apply_filters_parallel"
    /\ mpc = "Done"
    /\ Len(received) = 2
    /\ received[1].item = 2
    /\ received[1].name = "prewitt_horizontal"
    /\ received[2].name = "prewitt_vertical"

-----------------------------------------------------------------------------
(***************************************************************************)
(* The selection rules of get_next_pivot, stated without the scans.        *)
(***************************************************************************)
SetMax(S) == CHOOSE x \in S : \A y \in S : y <= x
SetMin(S) == CHOOSE x \in S : \A y \in S : x <= y

\* The columns the scan of row 0 ranges over.
ScanColumns(t) == 1 .. (t.ncols - 1)

\* The columns of row 0 with a strictly negative entry.
NegativeColumns(t) == {j \in ScanColumns(t) : FLt(t.at[0][j], FZero)}

\* Those among them with the smallest value.
MostNegative(t) ==
    {j \in NegativeColumns(t) :
        \A k \in NegativeColumns(t) : FLe(t.at[0][j], t.at[0][k])}

\* The columns the scan does not skip at line 50: their entry is strictly
\* negative or NaN.
NotSkipped(t) == {j \in ScanColumns(t) : ~FGe(t.at[0][j], FZero)}

NaNColumns(t) == {j \in ScanColumns(t) : IsNaN(t.at[0][j])}

\* The columns not skipped after the last NaN of row 0 (all of them when
\* row 0 holds no NaN).
AfterLastNaN(t) ==
    IF NaNColumns(t) = {} THEN NotSkipped(t)
    ELSE {j \in NotSkipped(t) : j > SetMax(NaNColumns(t))}

ExpectedEntering(t) ==
    IF NotSkipped(t) = {} THEN None
    ELSE IF AfterLastNaN(t) = {} THEN <<SetMax(NaNColumns(t))>>
    ELSE <<SetMax({j \in AfterLastNaN(t) :
                     \A k \in AfterLastNaN(t) : FLe(t.at[0][j], t.at[0][k])})>>

\* The entering column get_next_pivot settles on (lines 48-63, 68).
EnteringOf(t) ==
    LET entry == ScanEntry(t, 1, None)
    IN  IF entry = None THEN None ELSE <<entry[1]>>

\* C13 as stated: the entering column is the strictly negative column of
\* row 0 with the smallest value, the first one in scan order when several
\* share that value; None when no column is strictly negative.
C13_FirstMostNegative ==
    pc = "Running" =>
        /\ NegativeColumns(table) # {} =>
              EnteringOf(table) = <<SetMin(MostNegative(table))>>
        /\ NegativeColumns(table) = {} => get_next_pivot(table) = None

\* C13, amended: the scan keeps every column whose row 0 entry is not
\* >= 0.0 unless that entry is greater than the kept one's.  On a row 0
\* without NaN the entering column is the strictly negative column with the
\* smallest value, the last one in scan order when several share that
\* value; a NaN entry is always kept and gives way to any later column not
\* skipped; None when every entry is >= 0.0.
C13_LastMostNegative ==
    pc = "Running" =>
        /\ EnteringOf(table) = ExpectedEntering(table)
        /\ NaNColumns(table) = {} =>
              /\ NegativeColumns(table) # {} =>
                    EnteringOf(table) = <<SetMax(MostNegative(table))>>
              /\ NegativeColumns(table) = {} => get_next_pivot(table) = None
        /\ get_next_pivot(table) # None =>
              <<get_next_pivot(table)[1]>> = EnteringOf(table)

\* Both objective coefficients are 1.0, row 0 holds -1.0 twice, and the
\* first pivot was made on column 2.
C13_Witness ==
    /\ input.obj = <<FOne, FOne>>
    /\ npivots = 1
    /\ pivot[1] = 2

\* The ratio of constraint row i for entering column c (line 70).
Ratio(t, c, i) == FDiv(t.at[i][t.ncols - 1], t.at[i][c])

ConstraintRows(t) == 1 .. (t.nrows - 1)

\* The rows left once those with a negative ratio are discarded.
KeptRows(t, c) == {i \in ConstraintRows(t) : ~FLt(Ratio(t, c, i), FZero)}

\* Those among them whose ratio is a number no kept row's ratio is below.
MinRatioRows(t, c) ==
    {i \in KeptRows(t, c) :
        /\ ~IsNaN(Ratio(t, c, i))
        /\ \A k \in KeptRows(t, c) :
              ~IsNaN(Ratio(t, c, k)) => FLe(Ratio(t, c, i), Ratio(t, c, k))}

\* C14: for the entering column, get_next_pivot discards the constraint
\* rows whose ratio RHS / coefficient is negative and returns the remaining
\* row with the smallest ratio, the lowest row index when several share it.
C14_MinRatio ==
    (Valid(input) /\ pc = "Running" /\ EnteringOf(table) # None) =>
        LET c == EnteringOf(table)[1]
        IN  /\ KeptRows(table, c) = {} => get_next_pivot(table) = None
            /\ MinRatioRows(table, c) # {} =>
                  get_next_pivot(table) = <<c, SetMin(MinRatioRows(table, c))>>

\* C15: from a tableau built with non-negative requirements, whenever
\* get_next_pivot returns a pivot, the pivot entry is strictly positive.
C15_PositivePivot ==
    (Valid(input) /\ pc = "Running" /\ get_next_pivot(table) # None) =>
        LET p == get_next_pivot(table)
        IN  FGt(table.at[p[2]][p[1]], FZero)

\* A number: neither an infinity nor NaN.
IsFinite(x) == ~IsInf(x) /\ ~IsNaN(x)

\* C16: apply_row_operations with pivot (c, r) and a non-zero pivot entry
\* (a non-zero number) sets new[i][j] = old[i][j] - (old[r][j] / old[r][c])
\* * old[i][c] for every row i # r and column j, old[i][c] being the value
\* before row i is written; so new[i][c] = 0 for every row i # r.  Stated of
\* every call the solve loop makes.
C16_RowReduction ==
    (pc = "Running" /\ get_next_pivot(table) # None) =>
        LET c   == get_next_pivot(table)[1]
            r   == get_next_pivot(table)[2]
            new == apply_row_operations(<<c, r>>, table)
        IN  (~IsZero(table.at[r][c]) /\ IsFinite(table.at[r][c])) =>
                \A i \in Rows(table) \ {r} :
                    /\ \A j \in Cols(table) :
                          new.at[i][j] =
                              FAdd(table.at[i][j],
                                   FNeg(FMul(FDiv(table.at[r][j], table.at[r][c]),
                                             table.at[i][c])))
                    /\ IsZero(new.at[i][c])

\* C17: apply_row_operations with pivot (c, r) leaves every entry of the
\* pivot row r as it was: the row is not scaled.
C17_PivotRowUnchanged ==
    [][ (pc = "Running" /\ npivots' = npivots + 1) =>
          table'.at[pivot'[2]] = table.at[pivot'[2]] ]_vars

\* Problem2 after its first pivot, on column 1 and row 2: the pivot row
\* still holds its entry 3.0.
C17_Witness ==
    /\ input = Problem2
    /\ npivots = 1
    /\ pivot = <<1, 2>>
    /\ table.at[2][1] = FromInt(3)

\* C18: once built, the tableau keeps its row and column counts; the
\* search for a pivot changes no entry: entries change only in the step
\* that builds the tableau and in the steps that apply a pivot.
C18_ShapeAndWriters ==
    [][ /\ pc # "Start" =>
              /\ table'.nrows = table.nrows
              /\ table'.ncols = table.ncols
              /\ table'.nrows = NumConstr + 1
              /\ table'.ncols = NumVars + NumConstr + 2
        /\ table' # table =>
              \/ pc = "Start" /\ table' = create_augmented_mat(input.obj, input.constr, input.req)
              \/ /\ pc = "Running" /\ npivots' = npivots + 1
                 /\ table' = apply_row_operations(pivot', table) ]_vars

\* Problem1 solved: two pivots have changed entries and the tableau still
\* has its 5 rows and 9 columns.
C18_Witness ==
    /\ input = Problem1
    /\ pc = "Optimal"
    /\ npivots = 2
    /\ table.nrows = 5 /\ table.ncols = 9
    /\ table # create_augmented_mat(input.obj, input.constr, input.req)

\* C19: for an input with all requirements >= 0, the last column of every
\* constraint row is >= 0 in every tableau the solve loop reaches.
C19_Feasible ==
    (Valid(input) /\ pc \in {"Running", "Optimal"}) =>
        \A i \in ConstraintRows(table) : FGe(table.at[i][LastCol], FZero)

\* C20: for an input with all requirements >= 0, the entering column of
\* every pivot get_next_pivot returns is one of the columns
\* 1..numVars+numConstraints, never the last column.
C20_EnteringNotLast ==
    (Valid(input) /\ pc = "Running" /\ get_next_pivot(table) # None) =>
        get_next_pivot(table)[1] \in 1 .. (NumVars + NumConstr)

-----------------------------------------------------------------------------
(***************************************************************************)
(* Termination of the solve loop.  get_next_pivot and apply_row_operations *)
(* are functions of the tableau alone, so a tableau that comes back after  *)
(* one or more passes of the loop comes back for ever.                     *)
(***************************************************************************)

\* Longest cycle of tableaux looked for.
MaxCycle == 2

\* Lines 15-21: the tableau after k more passes of the while loop, or None
\* if the loop ends before.
RECURSIVE AfterPivots(_, _)
AfterPivots(t, k) ==
    IF k = 0 THEN t
    ELSE IF get_next_pivot(t) = None THEN None
    ELSE AfterPivots(apply_row_operations(get_next_pivot(t), t), k - 1)

\* C21: for every input with all requirements >= 0 the solve loop ends
\* after finitely many pivots; no infinite sequence of pivots is possible,
\* so no tableau the loop reaches comes back after further pivots.
C21_NoRepeatedTableau ==
    (Valid(input) /\ pc = "Running") =>
        \A k \in 1 .. MaxCycle : AfterPivots(table, k) # table

=============================================================================
